---- MODULE Spec2Model ----
(***************************************************************************)
(* A model of wrap_openpose.py: the grouping of OpenPose frame files by    *)
(* session, camera, resolution and frame (group_files), the resolution     *)
(* check (sanity_check_groups), the loading and writing of one wrapper     *)
(* file per session (wrap_json_frames, load_recording, write_wrapper), the *)
(* extraction of the named regex groups (extract_regex_group_fields) and   *)
(* the selective de-indentation of keypoint lists (KEYPOINTS_KEY_VALUE_RE, *)
(* deindent_key_value).                                                    *)
(*                                                                         *)
(* Python values are tagged with their type, so that a comparison of       *)
(* values of different types is FALSE, as it is in Python: None, PyStr(s), *)
(* PyInt(n), PyTuple(a, b).  Python dicts keep insertion order (3.7+).     *)
(***************************************************************************)
EXTENDS Integers, Sequences, FiniteSets, TLC

VARIABLES
    input_filenames,               \* wrap_json_frames: the list of paths given
    unreadable,                    \* environment: the paths whose open()/json.load() fails
    pc,                            \* wrap_json_frames: "group", "check", "sessions", "done", "error"
    id2cam2res2frame_file_tuples,  \* the grouping index, as the buckets in creation order
    warnings,                      \* the warnings emitted by warn()
    session_pos,                   \* position of the session loop in the index's sessions
    written,                       \* every write_wrapper call made, in order
    disk,                          \* output file name -> the Recording list it holds
    exc,                           \* the exception that ended the invocation, or "none"
    recordings,                    \* write_wrapper: the Recording list to serialize
    fullindent_json,               \* write_wrapper: json.dumps(recordings, indent=2)
    slimindent_json,               \* write_wrapper: the text written to the file
    ser_pc,                        \* serializer: "init", "written", "loaded"
    reloaded,                      \* the JSON value parsed back from the written text
    regex_match,                   \* extract_regex_group_fields: the match object
    extracted,                     \* extract_regex_group_fields: its outcome
    ext_pc                         \* extractor: "init", "returned", "raised"

pipeline_vars == <<input_filenames, unreadable, pc, id2cam2res2frame_file_tuples,
                   warnings, session_pos, written, disk, exc>>
ser_vars == <<recordings, fullindent_json, slimindent_json, ser_pc, reloaded>>
ext_vars == <<regex_match, extracted, ext_pc>>
vars == <<pipeline_vars, ser_vars, ext_vars>>

-----------------------------------------------------------------------------
(* Bounds of the model *)

\* the longest list of input paths
MaxFiles == 3

\* the most items of a frame document
MaxKeys == 2

-----------------------------------------------------------------------------
(* Python values *)

None == [none |-> TRUE]
PyStr(s) == [str |-> s]
PyInt(n) == [int |-> n]
PyTuple(a, b) == [tuple |-> <<a, b>>]

\* the printable ASCII characters in code point order: 32 (space) to 95 (_), and
\* 97 (a) to 126 (~); 96, the backtick, cannot be written in a TLA+ string and
\* occurs in no text of the model
ASCII_32_95 == " !\"#$%&'()*+,-./0123456789:;<=>?@ABCDEFGHIJKLMNOPQRSTUVWXYZ[\\]^_"
ASCII_97_126 == "abcdefghijklmnopqrstuvwxyz{|}~"

CharAt(s, i) == SubSeq(s, i, i)

\* the code point of every character: "\n" is 10
CodePoint ==
    [c \in {"\n"} \cup {CharAt(ASCII_32_95, k) : k \in 1..Len(ASCII_32_95)}
                  \cup {CharAt(ASCII_97_126, k) : k \in 1..Len(ASCII_97_126)} |->
        IF c = "\n" THEN 10
        ELSE IF \E k \in 1..Len(ASCII_32_95) : CharAt(ASCII_32_95, k) = c
             THEN 31 + (CHOOSE k \in 1..Len(ASCII_32_95) : CharAt(ASCII_32_95, k) = c)
             ELSE 96 + (CHOOSE k \in 1..Len(ASCII_97_126) : CharAt(ASCII_97_126, k) = c)]

\* ord(c)
Ord(c) == CodePoint[c]

\* Python's a < b on str: lexicographic by code point
RECURSIVE StrLess(_, _)
StrLess(a, b) ==
    IF b = "" THEN FALSE
    ELSE IF a = "" THEN TRUE
    ELSE IF Head(a) = Head(b) THEN StrLess(Tail(a), Tail(b))
    ELSE Ord(Head(a)) < Ord(Head(b))

\* int(text) for a text of decimal digits
RECURSIVE DecimalValue(_)
DecimalValue(text) ==
    IF text = "" THEN 0
    ELSE 10 * DecimalValue(SubSeq(text, 1, Len(text) - 1))
         + (Ord(CharAt(text, Len(text))) - Ord("0"))

-----------------------------------------------------------------------------
(* extract_regex_group_fields *)

GROUP_NAMES == <<"id", "camera", "width", "height", "frame">>

\* A match object is a function from the named groups the pattern defines to
\* None (the group took no part in the match) or PyStr(text).
\* regex_match.group(name) raises IndexError for a name the pattern lacks.
GroupRaisesIndexError(regex_match_, name) == name \notin DOMAIN regex_match_

group(regex_match_, name) == regex_match_[name]

IsDigits(text) ==
    /\ text # ""
    /\ \A k \in 1..Len(text) : Ord(CharAt(text, k)) \in Ord("0")..Ord("9")

\* int(x): TypeError for None, ValueError for a text that is no number, else
\* the decimal value
IntRaises(x) ==
    IF x = None THEN "TypeError"
    ELSE IF ~IsDigits(x.str) THEN "ValueError"
    ELSE "none"

int(x) == PyInt(DecimalValue(x.str))

\* try: v = regex_match.group(name) / except IndexError: v = None
StrField(regex_match_, name) ==
    IF GroupRaisesIndexError(regex_match_, name) THEN None
    ELSE group(regex_match_, name)

\* try: v = int(regex_match.group(name)) / except IndexError: v = None
\* raises what int() raises: only IndexError is caught
IntFieldRaises(regex_match_, name) ==
    IF GroupRaisesIndexError(regex_match_, name) THEN "none"
    ELSE IntRaises(group(regex_match_, name))

IntField(regex_match_, name) ==
    IF GroupRaisesIndexError(regex_match_, name) THEN None
    ELSE int(group(regex_match_, name))

\* the exception of the first of the three int conversions that raises
FirstRaised(width_raises, height_raises, frame_raises) ==
    IF width_raises # "none" THEN width_raises
    ELSE IF height_raises # "none" THEN height_raises
    ELSE frame_raises

Extracted(regex_match_, raised) ==
    IF raised # "none" THEN [raised |-> raised, value |-> <<>>]
    ELSE [raised |-> "none",
          value |-> <<StrField(regex_match_, "id"),
                      StrField(regex_match_, "camera"),
                      IntField(regex_match_, "width"),
                      IntField(regex_match_, "height"),
                      IntField(regex_match_, "frame")>>]

\* The outcome of the call: the exception it raises ("none" when it returns)
\* and the tuple (session_id, camera, width, height, frame) it returns.
extract_regex_group_fields(regex_match_) ==
    Extracted(regex_match_,
              FirstRaised(IntFieldRaises(regex_match_, "width"),
                          IntFieldRaises(regex_match_, "height"),
                          IntFieldRaises(regex_match_, "frame")))

-----------------------------------------------------------------------------
(* The file system and the filename pattern of the invocation *)

\* A match of a pattern that defines all five groups, the id group optional:
\* ^(?:(?P<id>[A-Za-z]+)_)?(?P<camera>cam\d)_(?P<width>\d+)x(?P<height>\d+)_(?P<frame>\d+)_keypoints\.json$
Match(id, camera, width, height, frame) ==
    [id |-> id, camera |-> PyStr(camera), width |-> PyStr(width),
     height |-> PyStr(height), frame |-> PyStr(frame)]

\* The candidate paths: whether os.path.isfile holds and what re.search of the
\* pattern gives (None: no match).
FILES == <<
    [path |-> "A_cam1_320x240_0_keypoints.json", isfile |-> TRUE,
     match |-> Match(PyStr("A"), "cam1", "320", "240", "0")],
    [path |-> "A_cam1_640x480_00_keypoints.json", isfile |-> TRUE,
     match |-> Match(PyStr("A"), "cam1", "640", "480", "00")],
    [path |-> "A_cam1_640x480_0_keypoints.json", isfile |-> TRUE,
     match |-> Match(PyStr("A"), "cam1", "640", "480", "0")],
    [path |-> "A_cam1_640x480_1_keypoints.json", isfile |-> TRUE,
     match |-> Match(PyStr("A"), "cam1", "640", "480", "1")],
    [path |-> "A_cam2_640x480_0_keypoints.json", isfile |-> TRUE,
     match |-> Match(PyStr("A"), "cam2", "640", "480", "0")],
    [path |-> "A_cam2_640x480_1_keypoints.json", isfile |-> FALSE,
     match |-> Match(PyStr("A"), "cam2", "640", "480", "1")],
    [path |-> "cam1_640x480_0_keypoints.json", isfile |-> TRUE,
     match |-> Match(None, "cam1", "640", "480", "0")],
    [path |-> "notes.txt", isfile |-> TRUE, match |-> None],
    [path |-> "session_cam1_640x480_0_keypoints.json", isfile |-> TRUE,
     match |-> Match(PyStr("session"), "cam1", "640", "480", "0")] >>

Paths == {FILES[k].path : k \in 1..Len(FILES)}

FileOf(filename) == FILES[CHOOSE k \in 1..Len(FILES) : FILES[k].path = filename]

isfile(filename) == FileOf(filename).isfile

re_search(filename) == FileOf(filename).match

-----------------------------------------------------------------------------
(* group_files *)

\* The index id2cam2res2frame_file_tuples is kept as its buckets in the order
\* of their creation (the code's frame_file_lists), each with its keys:
\* [session_id, camera, resolution, frame_file_tuples].  A session, a camera and
\* a resolution enter their dicts when their first bucket is created, so the
\* insertion order of every level is the order of first occurrence here.

BucketPos(index, session_id, camera, resolution) ==
    {k \in 1..Len(index) : /\ index[k].session_id = session_id
                           /\ index[k].camera = camera
                           /\ index[k].resolution = resolution}

\* frame in frame_file_tuples: Python's list membership, == on each element
FrameInList(frame, frame_file_tuples) ==
    \E k \in 1..Len(frame_file_tuples) : frame_file_tuples[k] = frame

\* The loop body once the file matched and its fields are extracted: the
\* exception raised ("none" if none) and the index after it.
GroupInsert(index, filename, session_id, camera, resolution, frame) ==
    LET with_bucket ==
            IF BucketPos(index, session_id, camera, resolution) = {}
            THEN Append(index, [session_id |-> session_id, camera |-> camera,
                                resolution |-> resolution, frame_file_tuples |-> <<>>])
            ELSE index
        k == CHOOSE j \in 1..Len(with_bucket) :
                 /\ with_bucket[j].session_id = session_id
                 /\ with_bucket[j].camera = camera
                 /\ with_bucket[j].resolution = resolution
    IN IF FrameInList(frame, with_bucket[k].frame_file_tuples)
       THEN [raised |-> "ValueError", index |-> with_bucket]
       ELSE [raised |-> "none",
             index |-> [with_bucket EXCEPT ![k].frame_file_tuples =
                           Append(@, PyTuple(frame, filename))]]

GroupMatched(index, filename, got) ==
    IF got.raised # "none" THEN [raised |-> got.raised, index |-> index]
    ELSE GroupInsert(index, filename, got.value[1], got.value[2],
                     PyTuple(got.value[3], got.value[4]), got.value[5])

\* The body of the loop for one filename
GroupOne(index, filename) ==
    IF ~isfile(filename) THEN [raised |-> "none", index |-> index]
    ELSE IF re_search(filename) = None THEN [raised |-> "none", index |-> index]
    ELSE GroupMatched(index, filename, extract_regex_group_fields(re_search(filename)))

\* for filename in filenames, from the state `looped` of the loop so far; a
\* raised exception ends it
RECURSIVE GroupLoop(_, _)
GroupLoop(looped, filenames) ==
    IF filenames = <<>> \/ looped.raised # "none" THEN looped
    ELSE GroupLoop(GroupOne(looped.index, Head(filenames)), Tail(filenames))

\* Python's < on two (frame, filename) tuples: by frame, then by filename
TupleLess(a, b) ==
    LET fa == a.tuple[1]  fb == b.tuple[1] IN
    IF fa = fb THEN StrLess(a.tuple[2], b.tuple[2])
    ELSE fa.int < fb.int

\* list.sort() / sorted(): a stable ascending sort
RECURSIVE InsertSorted(_, _)
InsertSorted(sorted_, x) ==
    IF sorted_ = <<>> THEN <<x>>
    ELSE IF TupleLess(x, Head(sorted_)) THEN <<x>> \o sorted_
    ELSE <<Head(sorted_)>> \o InsertSorted(Tail(sorted_), x)

\* a sort that leaves the list in insertion order
sort_KeepsInsertionOrder(frame_file_tuples) == frame_file_tuples

RECURSIVE sort(_)
sort(frame_file_tuples) ==
    IF frame_file_tuples = <<>> THEN <<>>
    ELSE InsertSorted(sort(SubSeq(frame_file_tuples, 1, Len(frame_file_tuples) - 1)),
                      frame_file_tuples[Len(frame_file_tuples)])

SortBuckets(index) ==
    [k \in 1..Len(index) |->
        [index[k] EXCEPT !.frame_file_tuples = sort(@)]]

SortReturned(looped) ==
    IF looped.raised # "none" THEN looped
    ELSE [raised |-> "none", index |-> SortBuckets(looped.index)]

\* group_files(filenames): the exception raised, or the index returned
group_files(filenames) ==
    SortReturned(GroupLoop([raised |-> "none", index |-> <<>>], filenames))


-----------------------------------------------------------------------------
(* The index's dict views *)

Range(seq) == {seq[k] : k \in 1..Len(seq)}

\* the keys of a dict in insertion order: the first occurrences
RECURSIVE Distinct(_)
Distinct(seq) ==
    IF seq = <<>> THEN <<>>
    ELSE LET front == Distinct(SubSeq(seq, 1, Len(seq) - 1))
             last == seq[Len(seq)]
         IN IF last \in Range(front) THEN front ELSE Append(front, last)

\* id2cam2res2frame_file_tuples.items(): the session ids
SessionKeys(index) == Distinct([k \in 1..Len(index) |-> index[k].session_id])

\* cam2res2frame_file_tuples.items(): the cameras of a session
CameraKeys(index, session_id) ==
    LET own == SelectSeq(index, LAMBDA b : b.session_id = session_id)
    IN Distinct([k \in 1..Len(own) |-> own[k].camera])

\* res2frame_file_tuples.items(): the buckets of a camera of a session
ResolutionItems(index, session_id, camera) ==
    SelectSeq(index, LAMBDA b : b.session_id = session_id /\ b.camera = camera)

-----------------------------------------------------------------------------
(* sanity_check_groups *)

\* '{}x{}'.format(h, w) for h, w in res2frame_file_tuples: the two numbers of
\* each key in the key's order (width, height)
\* a warning that names only the first resolution
ResolutionTexts_FirstOnly(items) ==
    <<<<items[1].resolution.tuple[1], items[1].resolution.tuple[2]>>>>

ResolutionTexts(items) ==
    [k \in 1..Len(items) |-> <<items[k].resolution.tuple[1], items[k].resolution.tuple[2]>>]

RECURSIVE CameraWarnings(_, _, _)
CameraWarnings(index, session_id, cameras) ==
    IF cameras = <<>> THEN <<>>
    ELSE LET items == ResolutionItems(index, session_id, Head(cameras))
             rest == CameraWarnings(index, session_id, Tail(cameras))
         IN IF Len(items) > 1
            THEN <<[camera |-> Head(cameras), session_id |-> session_id,
                    resolutions |-> ResolutionTexts(items)]>> \o rest
            ELSE rest

RECURSIVE SessionWarnings(_, _)
SessionWarnings(index, session_ids) ==
    IF session_ids = <<>> THEN <<>>
    ELSE CameraWarnings(index, Head(session_ids), CameraKeys(index, Head(session_ids)))
         \o SessionWarnings(index, Tail(session_ids))

\* the warnings the call emits, in order
sanity_check_groups(index) == SessionWarnings(index, SessionKeys(index))

-----------------------------------------------------------------------------
(* load_recording *)

\* json.load of a file: every file holds a document of its own
Document(filename) == [document_of |-> filename]

\* an OrderedDict as the sequence of its (key, value) items
DictKeys(d) == [k \in 1..Len(d) |-> d[k][1]]

\* d[key] = value
DictSet(d, key, value) ==
    IF \E k \in 1..Len(d) : d[k][1] = key
    THEN [k \in 1..Len(d) |-> IF d[k][1] = key THEN <<key, value>> ELSE d[k]]
    ELSE Append(d, <<key, value>>)

\* the frame loop over sorted(frame_file_tuples): the exception raised by
\* open()/json.load ("none" if none) and frame2data
RECURSIVE LoadFrames(_, _, _)
LoadFrames(frame2data, sorted_tuples, unreadable_) ==
    IF sorted_tuples = <<>> THEN [raised |-> "none", frame2data |-> frame2data]
    ELSE LET frame == Head(sorted_tuples).tuple[1]
             filename == Head(sorted_tuples).tuple[2]
         IN IF filename \in unreadable_
            THEN [raised |-> "LoadError", frame2data |-> frame2data]
            ELSE LoadFrames(DictSet(frame2data, frame, Document(filename)),
                            Tail(sorted_tuples), unreadable_)

\* the metadata keys set before the frames are loaded
RecordingHead(session_id, camera, width, height) ==
    (IF session_id # None THEN <<<<"id", session_id>>>> ELSE <<>>)
    \o (IF camera # None THEN <<<<"camera", camera>>>> ELSE <<>>)
    \o (IF width # None THEN <<<<"width", width>>>> ELSE <<>>)
    \o (IF height # None THEN <<<<"height", height>>>> ELSE <<>>)

RecordingOf(head, loaded) ==
    [raised |-> loaded.raised,
     recording |-> head \o <<<<"frames", loaded.frame2data>>>>]

load_recording(frame_file_tuples, session_id, camera, width, height, unreadable_) ==
    RecordingOf(RecordingHead(session_id, camera, width, height),
                LoadFrames(<<>>, sort(frame_file_tuples), unreadable_))

-----------------------------------------------------------------------------
(* wrap_json_frames: one session *)

\* sorted(cam2res2frame_file_tuples): the cameras in ascending order (every
\* camera of the modelled pattern is a str)
RECURSIVE InsertCamera(_, _)
InsertCamera(sorted_, camera) ==
    IF sorted_ = <<>> THEN <<camera>>
    ELSE IF StrLess(camera.str, Head(sorted_).str) THEN <<camera>> \o sorted_
    ELSE <<Head(sorted_)>> \o InsertCamera(Tail(sorted_), camera)

RECURSIVE sorted(_)
sorted(cameras) ==
    IF cameras = <<>> THEN <<>>
    ELSE InsertCamera(sorted(SubSeq(cameras, 1, Len(cameras) - 1)), cameras[Len(cameras)])

\* the buckets of a session in the order the two loops visit them: cameras
\* sorted, then the camera's resolutions in dict order
RECURSIVE BucketsInLoadOrder(_, _, _)
BucketsInLoadOrder(index, session_id, cameras) ==
    IF cameras = <<>> THEN <<>>
    ELSE ResolutionItems(index, session_id, Head(cameras))
         \o BucketsInLoadOrder(index, session_id, Tail(cameras))

\* recordings.append(load_recording(...)) for each bucket; the first exception ends it
LoadBucket(b, unreadable_) ==
    load_recording(b.frame_file_tuples, b.session_id, b.camera,
                   b.resolution.tuple[1], b.resolution.tuple[2], unreadable_)

Appended(loaded, got) ==
    [raised |-> got.raised,
     recordings |-> IF got.raised # "none" THEN loaded.recordings
                    ELSE Append(loaded.recordings, got.recording)]

RECURSIVE LoadRecordings(_, _, _)
LoadRecordings(loaded, buckets, unreadable_) ==
    IF buckets = <<>> \/ loaded.raised # "none" THEN loaded
    ELSE LoadRecordings(Appended(loaded, LoadBucket(Head(buckets), unreadable_)),
                        Tail(buckets), unreadable_)

\* the exception raised while loading the session ("none" if none) and the
\* list `recordings` built
SessionRecordings(index, session_id, unreadable_) ==
    LoadRecordings([raised |-> "none", recordings |-> <<>>],
                   BucketsInLoadOrder(index, session_id, sorted(CameraKeys(index, session_id))),
                   unreadable_)

\* '{}.openpose.json'.format(session_id), 'session' for None; output_dir is None
OutputFilename(session_id) ==
    (IF session_id = None THEN "session" ELSE session_id.str) \o ".openpose.json"

\* a session loop that writes what was loaded before the failure
SessionWrites_PartialOnFailure(session_id, got) ==
    <<[session_id |-> session_id, filename |-> OutputFilename(session_id),
       recordings |-> got.recordings]>>

\* the write_wrapper calls one pass of the session loop makes
SessionWrites(session_id, got) ==
    IF got.raised # "none" THEN <<>>
    ELSE <<[session_id |-> session_id, filename |-> OutputFilename(session_id),
            recordings |-> got.recordings]>>

\* open(filename, 'w') ... w.write(...): the file holds what was written last
RECURSIVE WriteAll(_, _)
WriteAll(disk_, writes) ==
    IF writes = <<>> THEN disk_
    ELSE WriteAll((Head(writes).filename :> Head(writes).recordings) @@ disk_, Tail(writes))

-----------------------------------------------------------------------------
(* wrap_json_frames *)

\* the lists of input paths: up to MaxFiles paths, each given once, in any order
InputLists ==
    {list \in UNION {[1..n -> Paths] : n \in 0..MaxFiles} :
        \A i, j \in 1..Len(list) : i # j => list[i] # list[j]}

PipelineIdle ==
    /\ input_filenames = <<>>
    /\ unreadable = {}
    /\ pc = "idle"
    /\ id2cam2res2frame_file_tuples = <<>>
    /\ warnings = <<>>
    /\ session_pos = 0
    /\ written = <<>>
    /\ disk = <<>>
    /\ exc = "none"

SerIdle ==
    /\ recordings = <<>>
    /\ fullindent_json = ""
    /\ slimindent_json = ""
    /\ ser_pc = "idle"
    /\ reloaded = <<>>

ExtIdle ==
    /\ regex_match = <<>>
    /\ extracted = <<>>
    /\ ext_pc = "idle"

Init ==
    /\ input_filenames \in InputLists
    /\ unreadable \in {{}} \cup {{f} : f \in Range(input_filenames)}
    /\ pc = "group"
    /\ id2cam2res2frame_file_tuples = <<>>
    /\ warnings = <<>>
    /\ session_pos = 0
    /\ written = <<>>
    /\ disk = <<>>
    /\ exc = "none"
    /\ SerIdle
    /\ ExtIdle

\* id2cam2res2frame_file_tuples = group_files(filenames=input_filenames, ...)
GroupFiles ==
    /\ pc = "group"
    /\ \E got \in {group_files(input_filenames)} :
       IF got.raised # "none"
       THEN /\ pc' = "error"
            /\ exc' = got.raised
            /\ UNCHANGED id2cam2res2frame_file_tuples
       ELSE /\ pc' = "check"
            /\ id2cam2res2frame_file_tuples' = got.index
            /\ UNCHANGED exc
    /\ UNCHANGED <<input_filenames, unreadable, warnings, session_pos, written, disk>>
    /\ UNCHANGED <<ser_vars, ext_vars>>

\* sanity_check_groups(id2cam2res2frame_file_tuples)
SanityCheck ==
    /\ pc = "check"
    /\ warnings' = sanity_check_groups(id2cam2res2frame_file_tuples)
    /\ session_pos' = 1
    /\ pc' = "sessions"
    /\ UNCHANGED <<input_filenames, unreadable, id2cam2res2frame_file_tuples, written, disk, exc>>
    /\ UNCHANGED <<ser_vars, ext_vars>>

\* one pass of: for session_id, cam2res2frame_file_tuples in ....items()
ProcessSession ==
    /\ pc = "sessions"
    /\ session_pos <= Len(SessionKeys(id2cam2res2frame_file_tuples))
    /\ \E session_id \in {SessionKeys(id2cam2res2frame_file_tuples)[session_pos]} :
       \E got \in {SessionRecordings(id2cam2res2frame_file_tuples, session_id, unreadable)} :
       \E writes \in {SessionWrites(session_id, got)} :
          /\ written' = written \o writes
          /\ disk' = WriteAll(disk, writes)
          /\ IF got.raised # "none"
             THEN /\ pc' = "error"
                  /\ exc' = got.raised
                  /\ UNCHANGED session_pos
             ELSE /\ session_pos' = session_pos + 1
                  /\ UNCHANGED <<pc, exc>>
    /\ UNCHANGED <<input_filenames, unreadable, id2cam2res2frame_file_tuples, warnings>>
    /\ UNCHANGED <<ser_vars, ext_vars>>

\* the session loop is exhausted: wrap_json_frames returns
Return ==
    /\ pc = "sessions"
    /\ session_pos > Len(SessionKeys(id2cam2res2frame_file_tuples))
    /\ pc' = "done"
    /\ UNCHANGED <<input_filenames, unreadable, id2cam2res2frame_file_tuples, warnings,
                   session_pos, written, disk, exc>>
    /\ UNCHANGED <<ser_vars, ext_vars>>

Next == GroupFiles \/ SanityCheck \/ ProcessSession \/ Return

Spec == Init /\ [][Next]_vars


-----------------------------------------------------------------------------
(* Properties of the grouping and of the invocation *)

Grouped == pc \in {"check", "sessions", "done"} \/ (pc = "error" /\ exc = "LoadError")

\* the (session, camera, width, height, frame) tuple of a matching path
TupleOf(filename) == extract_regex_group_fields(re_search(filename)).value

Matching(filename) == isfile(filename) /\ re_search(filename) # None

\* two different existing matching paths of the input with the same tuple
DuplicateInput ==
    \E i, j \in 1..Len(input_filenames) :
        /\ input_filenames[i] # input_filenames[j]
        /\ Matching(input_filenames[i])
        /\ Matching(input_filenames[j])
        /\ TupleOf(input_filenames[i]) = TupleOf(input_filenames[j])

FramesOf(bucket) == [k \in 1..Len(bucket.frame_file_tuples) |-> bucket.frame_file_tuples[k].tuple[1]]

NoFrameTwice(bucket) ==
    \A i, j \in 1..Len(bucket.frame_file_tuples) :
        i # j => FramesOf(bucket)[i] # FramesOf(bucket)[j]

\* C1: an input with two different existing matching paths of the same
\* (session, camera, resolution, frame) ends the invocation with the
\* duplicate-frame ValueError and no output file is written; and no bucket of a
\* returned index holds two entries of the same frame.
C1_DuplicateFrameIsRejected ==
    /\ (pc # "group" /\ DuplicateInput) =>
           (pc = "error" /\ exc = "ValueError" /\ written = <<>> /\ DOMAIN disk = {})
    /\ Grouped =>
           \A k \in 1..Len(id2cam2res2frame_file_tuples) :
               NoFrameTwice(id2cam2res2frame_file_tuples[k])

\* the input of C2: every path exists and matches, the tuples pairwise distinct
DistinctMatchingInput ==
    /\ \A i \in 1..Len(input_filenames) : Matching(input_filenames[i])
    /\ \A i, j \in 1..Len(input_filenames) :
           i # j => TupleOf(input_filenames[i]) # TupleOf(input_filenames[j])

KeyOfBucket(bucket) ==
    <<bucket.session_id, bucket.camera, bucket.resolution.tuple[1], bucket.resolution.tuple[2]>>

KeyOfPath(filename) == SubSeq(TupleOf(filename), 1, 4)

StrictlyAscending(bucket) ==
    \A i \in 1..(Len(bucket.frame_file_tuples) - 1) :
        FramesOf(bucket)[i].int < FramesOf(bucket)[i + 1].int

\* C2: for an input of existing matching paths with pairwise distinct tuples,
\* the index returned by group_files holds exactly one (frame, path) entry per
\* input path, in the bucket of the path's (session, camera, resolution), one
\* bucket per key and no other entry, and every bucket is in strictly ascending
\* frame order.
C2_OneEntryPerTupleAscending ==
    (Grouped /\ DistinctMatchingInput) =>
        LET index == id2cam2res2frame_file_tuples IN
        /\ \A i \in 1..Len(input_filenames) :
               Cardinality({<<k, n>> \in (1..Len(index)) \X (1..Len(input_filenames)) :
                               /\ n <= Len(index[k].frame_file_tuples)
                               /\ index[k].frame_file_tuples[n]
                                      = PyTuple(TupleOf(input_filenames[i])[5], input_filenames[i])
                               /\ KeyOfBucket(index[k]) = KeyOfPath(input_filenames[i])}) = 1
        /\ \A k \in 1..Len(index) :
               /\ StrictlyAscending(index[k])
               /\ index[k].frame_file_tuples # <<>>
               /\ \A n \in 1..Len(index[k].frame_file_tuples) :
                      \E i \in 1..Len(input_filenames) :
                          /\ index[k].frame_file_tuples[n]
                                 = PyTuple(TupleOf(input_filenames[i])[5], input_filenames[i])
                          /\ KeyOfBucket(index[k]) = KeyOfPath(input_filenames[i])
        /\ \A k, m \in 1..Len(index) : k # m => KeyOfBucket(index[k]) # KeyOfBucket(index[m])
        /\ LET Sum[k \in 0..Len(index)] ==
                   IF k = 0 THEN 0 ELSE Sum[k - 1] + Len(index[k].frame_file_tuples)
           IN Sum[Len(index)] = Len(input_filenames)

\* C2's case: three distinct tuples, given with a later frame before an earlier
\* frame of the same bucket, were grouped
C2_Witness ==
    /\ pc = "check"
    /\ DistinctMatchingInput
    /\ Len(input_filenames) = MaxFiles
    /\ \E i, j \in 1..Len(input_filenames) :
           /\ i < j
           /\ KeyOfPath(input_filenames[i]) = KeyOfPath(input_filenames[j])
           /\ TupleOf(input_filenames[j])[5].int < TupleOf(input_filenames[i])[5].int


\* d[key] of an OrderedDict, None for a missing key
DictGet(d, key) ==
    IF \E k \in 1..Len(d) : d[k][1] = key
    THEN d[CHOOSE k \in 1..Len(d) : d[k][1] = key][2]
    ELSE None

Sessions == SessionKeys(id2cam2res2frame_file_tuples)

\* the Recording list of a session, as the session loop builds it
RecordingListOf(session_id) ==
    SessionRecordings(id2cam2res2frame_file_tuples, session_id, unreadable).recordings

\* C3: after wrap_json_frames completes without error every session key of the
\* index has its own output file, named after the session id ('session' when
\* absent), whose final content is the Recording list of that session: no two
\* sessions share a file and none is overwritten by another session's data.
C3_EverySessionHasItsOwnFile ==
    pc = "done" =>
        /\ \A k \in 1..Len(Sessions) :
               /\ OutputFilename(Sessions[k]) \in DOMAIN disk
               /\ disk[OutputFilename(Sessions[k])] = RecordingListOf(Sessions[k])
        /\ \A k, m \in 1..Len(Sessions) :
               k # m => OutputFilename(Sessions[k]) # OutputFilename(Sessions[m])

LoadFailed == pc = "error" /\ exc = "LoadError"

Checked == pc \in {"sessions", "done"} \/ LoadFailed

WarningsFor(session_id, camera) ==
    {k \in 1..Len(warnings) :
        warnings[k].session_id = session_id /\ warnings[k].camera = camera}

\* the recordings of a write for one camera at one resolution
RecordingsAt(write, camera, resolution) ==
    {n \in 1..Len(write.recordings) :
        /\ DictGet(write.recordings[n], "camera") = camera
        /\ DictGet(write.recordings[n], "width") = resolution.tuple[1]
        /\ DictGet(write.recordings[n], "height") = resolution.tuple[2]}

\* C8: sanity_check_groups emits exactly one warning for every (session,
\* camera) pair of the index with more than one resolution bucket, listing all
\* resolutions of the pair, and none for a pair with a single resolution; it
\* leaves the index as group_files returned it; and every session output
\* written holds one Recording per resolution bucket of each camera.
C8_OneWarningPerMixedCamera ==
    Checked =>
        LET index == id2cam2res2frame_file_tuples IN
        /\ index = group_files(input_filenames).index
        /\ \A k \in 1..Len(index) :
               LET items == ResolutionItems(index, index[k].session_id, index[k].camera)
                   mine == WarningsFor(index[k].session_id, index[k].camera)
               IN /\ Cardinality(mine) = IF Len(items) > 1 THEN 1 ELSE 0
                  /\ \A w \in mine :
                         /\ Len(warnings[w].resolutions) = Len(items)
                         /\ Range(warnings[w].resolutions)
                                = {<<items[n].resolution.tuple[1], items[n].resolution.tuple[2]>> :
                                       n \in 1..Len(items)}
        /\ \A w \in 1..Len(warnings) :
               \E k \in 1..Len(index) :
                   /\ index[k].session_id = warnings[w].session_id
                   /\ index[k].camera = warnings[w].camera
        /\ \A w \in 1..Len(written) :
               /\ \A k \in 1..Len(index) :
                      index[k].session_id = written[w].session_id =>
                          Cardinality(RecordingsAt(written[w], index[k].camera,
                                                   index[k].resolution)) = 1
               /\ Len(written[w].recordings)
                      = Len(SelectSeq(index, LAMBDA b : b.session_id = written[w].session_id))
        /\ pc = "done" =>
               \A k \in 1..Len(Sessions) :
                   \E w \in 1..Len(written) : written[w].session_id = Sessions[k]

\* C8's case: a camera seen at two resolutions was warned about once and the
\* session's output was written with a Recording for each resolution
C8_Witness ==
    /\ pc = "done"
    /\ \E w \in 1..Len(warnings) : Len(warnings[w].resolutions) = 2
    /\ \E w \in 1..Len(written) :
           \E n, m \in 1..Len(written[w].recordings) :
               /\ n # m
               /\ DictGet(written[w].recordings[n], "camera")
                      = DictGet(written[w].recordings[m], "camera")
               /\ DictGet(written[w].recordings[n], "width")
                      # DictGet(written[w].recordings[m], "width")

\* the input list in another order
Reordered(p) == [k \in 1..Len(input_filenames) |-> input_filenames[p[k]]]

\* the Recording list of a session for a given input list
RecordingListFor(filenames, session_id) ==
    SessionRecordings(group_files(filenames).index, session_id, {}).recordings

\* C10: the output does not depend on the order of the input list: for every
\* other ordering of the same existing, loadable paths each session's Recording
\* list is the one this run wrote, with the same recordings in the same order
\* and the same frames in each.
C10_OutputIndependentOfInputOrder ==
    (/\ pc = "done"
     /\ unreadable = {}
     /\ \A i \in 1..Len(input_filenames) : isfile(input_filenames[i])) =>
        \A p \in Permutations(1..Len(input_filenames)) :
            \A w \in 1..Len(written) :
                RecordingListFor(Reordered(p), written[w].session_id) = written[w].recordings

-----------------------------------------------------------------------------
(* extract_regex_group_fields on its own *)

\* what a group of a match holds: None, or a captured text
Captures == {None, PyStr("cam1"), PyStr("640"), PyStr("007")}

\* the match objects: any subset of the five names defined by the pattern
MatchObjects ==
    UNION {[defined -> Captures] : defined \in SUBSET Range(GROUP_NAMES)}

InitExtract ==
    /\ regex_match \in MatchObjects
    /\ extracted = <<>>
    /\ ext_pc = "init"
    /\ PipelineIdle
    /\ SerIdle

\* session_id, camera, width, height, frame = extract_regex_group_fields(filename_match)
Extract ==
    /\ ext_pc = "init"
    /\ \E got \in {extract_regex_group_fields(regex_match)} :
          /\ extracted' = got
          /\ ext_pc' = IF got.raised # "none" THEN "raised" ELSE "returned"
    /\ UNCHANGED regex_match
    /\ UNCHANGED <<pipeline_vars, ser_vars>>

NextExtract == Extract

SpecExtract == InitExtract /\ [][NextExtract]_vars

Missing(name) == name \notin DOMAIN regex_match \/ regex_match[name] = None

\* every numeric group that took part in the match captured digits
NumericCapturesAreDigits ==
    \A name \in {"width", "height", "frame"} :
        Missing(name) \/ IsDigits(regex_match[name].str)

\* C9: extract_regex_group_fields allows missing groups: a field whose group
\* is not defined in the pattern, or is defined but took no part in the match,
\* comes back as None without an exception, and the other fields come back
\* normally: the texts of id and camera, the integers of width, height, frame.
C9_MissingGroupsGiveNone ==
    (ext_pc # "init" /\ NumericCapturesAreDigits) =>
        /\ ext_pc = "returned"
        /\ extracted.raised = "none"
        /\ \A k \in 1..Len(GROUP_NAMES) :
               IF Missing(GROUP_NAMES[k]) THEN extracted.value[k] = None
               ELSE IF k <= 2 THEN extracted.value[k] = regex_match[GROUP_NAMES[k]]
               ELSE extracted.value[k] = PyInt(DecimalValue(regex_match[GROUP_NAMES[k]].str))

-----------------------------------------------------------------------------
(* json.dumps(recordings, sort_keys=False, indent=2) *)

\* A JSON value as json.load returns it and json.dumps prints it: PyStr(s),
\* PyNum(text) (a number, by the text repr() gives it), PyList(items) and
\* PyDict(items), the (key, value) items of an OrderedDict in order.
PyNum(text) == [num |-> text]
PyList(items) == [list |-> items]
PyDict(items) == [dict |-> items]

\* str(n) of an int n >= 0
RECURSIVE IntText(_)
IntText(n) ==
    IF n < 10 THEN CharAt("0123456789", n + 1)
    ELSE IntText(n \div 10) \o CharAt("0123456789", (n % 10) + 1)

\* the escapes of a character inside a JSON string (printable ASCII and "\n")
EscapeChar(c) ==
    IF c = "\"" THEN "\\\""
    ELSE IF c = "\\" THEN "\\\\"
    ELSE IF c = "\n" THEN "\\n"
    ELSE c

RECURSIVE Escape(_)
Escape(text) ==
    IF \A k \in 1..Len(text) : EscapeChar(CharAt(text, k)) = CharAt(text, k) THEN text
    ELSE EscapeChar(Head(text)) \o Escape(Tail(text))

Quote(text) == "\"" \o Escape(text) \o "\""

RECURSIVE Spaces(_)
Spaces(n) == IF n = 0 THEN "" ELSE " " \o Spaces(n - 1)

\* the line break before an item at a nesting level, with indent=2
NewlineIndent(level) == "\n" \o Spaces(2 * level)

\* what json.dumps makes of the values of a Recording: a key of a dict becomes
\* a string (an int key its decimal text, None "null"), an int its decimal text
KeyText(key) ==
    IF key = None THEN "null"
    ELSE IF "int" \in DOMAIN key THEN IntText(key.int)
    ELSE key.str

ScalarView(value) ==
    IF "int" \in DOMAIN value THEN PyNum(IntText(value.int)) ELSE value

FramesView(frame2data) ==
    PyDict([k \in 1..Len(frame2data) |-> <<KeyText(frame2data[k][1]), frame2data[k][2]>>])

RecordingView(recording) ==
    PyDict([k \in 1..Len(recording) |->
               <<recording[k][1],
                 IF recording[k][1] = "frames" THEN FramesView(recording[k][2])
                 ELSE ScalarView(recording[k][2])>>])

\* the list of recordings as the JSON value json.dumps prints
JsonView(recordings_) ==
    PyList([k \in 1..Len(recordings_) |-> RecordingView(recordings_[k])])

RECURSIVE Dumps(_, _)
RECURSIVE DumpListItems(_, _)
RECURSIVE DumpDictItems(_, _)

DumpListItems(items, level) ==
    IF Len(items) = 1 THEN Dumps(items[1], level)
    ELSE Dumps(items[1], level) \o "," \o NewlineIndent(level)
         \o DumpListItems(Tail(items), level)

DumpDictItems(items, level) ==
    IF Len(items) = 1 THEN Quote(items[1][1]) \o ": " \o Dumps(items[1][2], level)
    ELSE Quote(items[1][1]) \o ": " \o Dumps(items[1][2], level) \o "," \o NewlineIndent(level)
         \o DumpDictItems(Tail(items), level)

\* the text of a value that starts at nesting level `level`
Dumps(value, level) ==
    IF "str" \in DOMAIN value THEN Quote(value.str)
    ELSE IF "num" \in DOMAIN value THEN value.num
    ELSE IF "list" \in DOMAIN value
    THEN IF value.list = <<>> THEN "[]"
         ELSE "[" \o NewlineIndent(level + 1) \o DumpListItems(value.list, level + 1)
              \o NewlineIndent(level) \o "]"
    ELSE IF value.dict = <<>> THEN "{}"
         ELSE "{" \o NewlineIndent(level + 1) \o DumpDictItems(value.dict, level + 1)
              \o NewlineIndent(level) \o "}"

json_dumps(recordings_) == Dumps(JsonView(recordings_), 0)

-----------------------------------------------------------------------------
(* KEYPOINTS_KEY_VALUE_RE and deindent_key_value *)

IsDigit(c) == Ord(c) \in Ord("0")..Ord("9")

\* [\w_]: a letter, a digit or the underscore (the texts are ASCII)
IsWordChar(c) ==
    \/ Ord(c) \in Ord("a")..Ord("z")
    \/ Ord(c) \in Ord("A")..Ord("Z")
    \/ IsDigit(c)
    \/ c = "_"

InContentClass_NoRange(c) ==
    \/ c = "\n"
    \/ IsDigit(c)
    \/ c = "."
    \/ c = ","
    \/ c = " "
    \/ c = "-"

\* [\n\d., -e]: the newline, a digit, '.', ',' and the range from ' ' to 'e'
InContentClass(c) ==
    \/ c = "\n"
    \/ IsDigit(c)
    \/ c = "."
    \/ c = ","
    \/ Ord(c) \in Ord(" ")..Ord("e")

\* whether the literal text stands at position i
LiteralAt(text, i, literal) ==
    /\ i + Len(literal) - 1 <= Len(text)
    /\ SubSeq(text, i, i + Len(literal) - 1) = literal

\* the first position from lo on where a ']' stands, 0 if there is none
FirstClose(text, lo) ==
    IF \E q \in lo..Len(text) : CharAt(text, q) = "]"
    THEN CHOOSE q \in lo..Len(text) :
             /\ CharAt(text, q) = "]"
             /\ \A k \in lo..(q - 1) : CharAt(text, k) # "]"
    ELSE 0

\* ([\n\d., -e]+?)(]) from the content's first position p: the content is one
\* or more class characters, as few as possible, so the match ends at the
\* first ']' after p, if only class characters stand before it; 0 if not
ContentCloseAt(text, p, q) ==
    IF q # 0 /\ \A k \in p..(q - 1) : InContentClass(CharAt(text, k)) THEN q ELSE 0

ContentClose(text, p) == ContentCloseAt(text, p, FirstClose(text, p + 1))

\* _keypoints_\dd": \[ at position j, then the content and the ']': the
\* position of the ']' that ends the match, 0 if there is no match
SuffixClose(text, j) ==
    IF /\ LiteralAt(text, j, "_keypoints_")
       /\ j + 11 <= Len(text)
       /\ IsDigit(CharAt(text, j + 11))
       /\ LiteralAt(text, j + 12, "d\": [")
    THEN ContentClose(text, j + 17)
    ELSE 0

\* "[\w_]+? from the '"' at position i: the key's first n characters are word
\* characters; the shortest n for which the rest of the pattern matches wins
RECURSIVE MatchClose(_, _, _)
MatchClose(text, i, n) ==
    IF i + n > Len(text) THEN 0
    ELSE IF ~IsWordChar(CharAt(text, i + n)) THEN 0
    ELSE IF SuffixClose(text, i + n + 1) # 0 THEN SuffixClose(text, i + n + 1)
    ELSE MatchClose(text, i, n + 1)

\* the position of the ']' that ends a match starting at i, 0 if none starts there
MatchAt(text, i) ==
    IF CharAt(text, i) = "\"" THEN MatchClose(text, i, 1) ELSE 0

\* where group 1 of the match that starts at i ends: at the '[' after the key
KeyEnd(text, i) ==
    3 + CHOOSE j \in i..Len(text) :
            /\ LiteralAt(text, j, "\": [")
            /\ \A k \in i..(j - 1) : ~LiteralAt(text, k, "\": [")

IsSpace(c) == c \in {" ", "\n", "\t", "\r"}

\* str.strip()
RECURSIVE LStrip(_)
LStrip(text) ==
    IF text # "" /\ IsSpace(Head(text)) THEN LStrip(Tail(text)) ELSE text

RECURSIVE RStrip(_)
RStrip(text) ==
    IF text # "" /\ IsSpace(CharAt(text, Len(text)))
    THEN RStrip(SubSeq(text, 1, Len(text) - 1)) ELSE text

strip(text) == RStrip(LStrip(text))

\* the position of the first '\n' of a text, 0 if it has none
FirstNewline(text) ==
    IF \E k \in 1..Len(text) : CharAt(text, k) = "\n"
    THEN CHOOSE k \in 1..Len(text) :
             /\ CharAt(text, k) = "\n"
             /\ \A h \in 1..(k - 1) : CharAt(text, h) # "\n"
    ELSE 0

\* text.split('\n')
RECURSIVE split(_)
RECURSIVE SplitAt(_, _)
SplitAt(text, k) ==
    IF k = 0 THEN <<text>>
    ELSE <<SubSeq(text, 1, k - 1)>> \o split(SubSeq(text, k + 1, Len(text)))

split(text) == SplitAt(text, FirstNewline(text))

\* ' '.join(item.strip() for item in items)
RECURSIVE JoinStripped(_)
JoinStripped(items) ==
    IF Len(items) = 1 THEN strip(items[1])
    ELSE strip(items[1]) \o " " \o JoinStripped(Tail(items))

\* deindent_key_value(match): the replacement of a match, from its three groups
deindent_key_value(key_string, array_content_string, array_close_string) ==
    key_string \o strip(JoinStripped(split(array_content_string))) \o array_close_string

\* the replacement of the match that starts at i and ends at close
Replacement(text, i, close, key_end) ==
    deindent_key_value(SubSeq(text, i, key_end),
                       SubSeq(text, key_end + 1, close - 1),
                       SubSeq(text, close, close))

\* the first position from i on where a match starts, 0 if there is none
NextMatch(text, i) ==
    IF \E j \in i..Len(text) : MatchAt(text, j) # 0
    THEN CHOOSE j \in i..Len(text) :
             /\ MatchAt(text, j) # 0
             /\ \A k \in i..(j - 1) : MatchAt(text, k) = 0
    ELSE 0

\* re.sub from position i on: the text before the leftmost match is copied,
\* the match is replaced and the scan goes on after it
RECURSIVE SubFrom(_, _)
RECURSIVE SubMatch(_, _, _)
SubMatch(text, j, close) ==
    Replacement(text, j, close, KeyEnd(text, j)) \o SubFrom(text, close + 1)

SubNext(text, i, j) ==
    IF j = 0 THEN SubSeq(text, i, Len(text))
    ELSE SubSeq(text, i, j - 1) \o SubMatch(text, j, MatchAt(text, j))

SubFrom(text, i) == SubNext(text, i, NextMatch(text, i))

\* re.sub(KEYPOINTS_KEY_VALUE_RE, deindent_key_value, fullindent_json, flags=re.DOTALL)
re_sub(fullindent_json_) == SubFrom(fullindent_json_, 1)


-----------------------------------------------------------------------------
(* json.load: the parser that reads the text back *)

\* the first position from i on that holds no whitespace (Len(text) + 1 if none)
SkipSpace(text, i) ==
    CHOOSE j \in i..(Len(text) + 1) :
        /\ j = Len(text) + 1 \/ ~IsSpace(CharAt(text, j))
        /\ \A k \in i..(j - 1) : IsSpace(CharAt(text, k))

\* the position of the '"' that closes the string whose content starts at i
\* (a character after a backslash is skipped); Len(text) + 1 if none
RECURSIVE StringClose(_, _)
StringClose(text, i) ==
    IF i > Len(text) THEN i
    ELSE IF \A k \in i..Len(text) : CharAt(text, k) # "\\"
    THEN CHOOSE j \in i..(Len(text) + 1) :
             /\ j = Len(text) + 1 \/ CharAt(text, j) = "\""
             /\ \A k \in i..(j - 1) : CharAt(text, k) # "\""
    ELSE IF CharAt(text, i) = "\"" THEN i
    ELSE IF CharAt(text, i) = "\\" THEN StringClose(text, i + 2)
    ELSE StringClose(text, i + 1)

\* the character an escape sequence \c stands for
UnescapeChar(c) == IF c = "n" THEN "\n" ELSE c

\* the string that the escaped text stands for
RECURSIVE Unescape(_)
Unescape(text) ==
    IF \A k \in 1..Len(text) : CharAt(text, k) # "\\" THEN text
    ELSE IF Head(text) = "\\" /\ Len(text) >= 2
    THEN UnescapeChar(CharAt(text, 2)) \o Unescape(SubSeq(text, 3, Len(text)))
    ELSE Head(text) \o Unescape(Tail(text))

\* the first position from i on that ends a number: a ',', a closing bracket
\* or whitespace (Len(text) + 1 if none)
IsNumberEnd(c) == c \in {",", "]", "}"} \/ IsSpace(c)

NumberEnd(text, i) ==
    CHOOSE j \in i..(Len(text) + 1) :
        /\ j = Len(text) + 1 \/ IsNumberEnd(CharAt(text, j))
        /\ \A k \in i..(j - 1) : ~IsNumberEnd(CharAt(text, k))

\* a parsed value and the position after it
Parsed(value, next) == [value |-> value, next |-> next]

ParseString(text, i, close) == Parsed(PyStr(Unescape(SubSeq(text, i + 1, close - 1))), close + 1)

ParseNumber(text, i, end) ==
    IF end = i THEN Parsed([error |-> "number"], i)
    ELSE Parsed(PyNum(SubSeq(text, i, end - 1)), end)

IsError(item) == "error" \in DOMAIN item.value

RECURSIVE ParseValue(_, _)
RECURSIVE ParseList(_, _, _)
RECURSIVE ParseDict(_, _, _)
RECURSIVE ParseListItem(_, _, _)
RECURSIVE ParseDictItem(_, _, _, _)
RECURSIVE ParseDictValue(_, _, _, _)

\* the items of a list from position i (after '[' or after an item), read so far: items
ParseList(text, i, items) ==
    IF i > Len(text) THEN Parsed([error |-> "list"], i)
    ELSE IF CharAt(text, i) = "]" THEN Parsed(PyList(items), i + 1)
    ELSE IF CharAt(text, i) = "," THEN ParseList(text, SkipSpace(text, i + 1), items)
    ELSE ParseListItem(text, ParseValue(text, i), items)

ParseListItem(text, item, items) ==
    IF IsError(item) THEN item
    ELSE ParseList(text, SkipSpace(text, item.next), Append(items, item.value))

\* the items of a dict from position i (after '{' or after an item)
ParseDict(text, i, items) ==
    IF i > Len(text) THEN Parsed([error |-> "dict"], i)
    ELSE IF CharAt(text, i) = "}" THEN Parsed(PyDict(items), i + 1)
    ELSE IF CharAt(text, i) = "," THEN ParseDict(text, SkipSpace(text, i + 1), items)
    ELSE IF CharAt(text, i) # "\"" THEN Parsed([error |-> "key"], i)
    ELSE ParseDictItem(text, i, StringClose(text, i + 1), items)

\* the item whose key stands between the quotes at i and close: a ':' and the value follow
ParseDictItem(text, i, close, items) ==
    IF CharAt(text, SkipSpace(text, close + 1)) # ":" THEN Parsed([error |-> "colon"], close)
    ELSE ParseDictValue(text, Unescape(SubSeq(text, i + 1, close - 1)),
                        ParseValue(text, SkipSpace(text, SkipSpace(text, close + 1) + 1)),
                        items)

ParseDictValue(text, key, item, items) ==
    IF IsError(item) THEN item
    ELSE ParseDict(text, SkipSpace(text, item.next), Append(items, <<key, item.value>>))

ParseValue(text, i) ==
    IF i > Len(text) THEN Parsed([error |-> "value"], i)
    ELSE IF CharAt(text, i) = "\"" THEN ParseString(text, i, StringClose(text, i + 1))
    ELSE IF CharAt(text, i) = "[" THEN ParseList(text, SkipSpace(text, i + 1), <<>>)
    ELSE IF CharAt(text, i) = "{" THEN ParseDict(text, SkipSpace(text, i + 1), <<>>)
    ELSE ParseNumber(text, i, NumberEnd(text, i))

\* json.loads(text, object_pairs_hook=OrderedDict)
json_loads(text) == ParseValue(text, SkipSpace(text, 1)).value


-----------------------------------------------------------------------------
(* write_wrapper on its own *)

\* the keys of a frame document: two keypoints keys as OpenPose writes them,
\* one with a character that is no word character, one with nothing before
\* the suffix, and a key of another kind
DocumentKeys ==
    {"a_keypoints_2d", "hand_left_keypoints_2d", "a-b_keypoints_2d", "_keypoints_2d", "abc"}

\* the values: arrays of none, one and several numbers (negative, decimal,
\* exponent notation, not finite), and a string
DocumentValues ==
    {PyList(<<>>),
     PyList(<<PyNum("1")>>),
     PyList(<<PyNum("-2.5"), PyNum("1e-05"), PyNum("3")>>),
     PyList(<<PyNum("Infinity")>>),
     PyStr(" ]")}

\* the frame documents: up to MaxKeys items with keys of their own
Documents ==
    UNION {{items \in [1..n -> DocumentKeys \X DocumentValues] :
               \A h, k \in 1..n : h # k => items[h][1] # items[k][1]} : n \in 1..MaxKeys}

\* the lists of one Recording, as load_recording builds it, with one frame
RecordingLists ==
    {<<RecordingOf(RecordingHead(PyStr("A"), None, PyInt(640), None),
                   [raised |-> "none",
                    frame2data |-> <<<<PyInt(0), PyDict(items)>>>>]).recording>> :
        items \in Documents}

InitSer ==
    /\ recordings \in RecordingLists
    /\ fullindent_json = ""
    /\ slimindent_json = ""
    /\ ser_pc = "init"
    /\ reloaded = <<>>
    /\ PipelineIdle
    /\ ExtIdle

\* write_wrapper(filename, recordings): slimindent_json is the text of the file
WriteWrapper ==
    /\ ser_pc = "init"
    /\ \E dumped \in {json_dumps(recordings)} :
          /\ fullindent_json' = dumped
          /\ slimindent_json' = re_sub(dumped)
    /\ ser_pc' = "written"
    /\ UNCHANGED <<recordings, reloaded>>
    /\ UNCHANGED <<pipeline_vars, ext_vars>>

\* a reader parses the file as plain JSON
LoadWrapper ==
    /\ ser_pc = "written"
    /\ reloaded' = json_loads(slimindent_json)
    /\ ser_pc' = "loaded"
    /\ UNCHANGED <<recordings, fullindent_json, slimindent_json>>
    /\ UNCHANGED <<pipeline_vars, ext_vars>>

NextSer == WriteWrapper \/ LoadWrapper

SpecSer == InitSer /\ [][NextSer]_vars


-----------------------------------------------------------------------------
(* Properties of the text written *)

\* the first position where sub stands in text, 0 if it stands nowhere
Find(text, sub) ==
    IF \E i \in 1..Len(text) : LiteralAt(text, i, sub)
    THEN CHOOSE i \in 1..Len(text) :
             /\ LiteralAt(text, i, sub)
             /\ \A k \in 1..(i - 1) : ~LiteralAt(text, k, sub)
    ELSE 0

\* the items of the frame document of the recording
DocumentItems == DictGet(recordings[1], "frames")[1][2].dict

IsNumber(value) == "num" \in DOMAIN value

IsFinite(value) == value.num \notin {"Infinity", "-Infinity", "NaN"}

IsArray(value) == "list" \in DOMAIN value

IsArrayOfNumbers(value) ==
    IsArray(value) /\ \A k \in 1..Len(value.list) : IsNumber(value.list[k])

IsArrayOfFiniteNumbers(value) ==
    IsArrayOfNumbers(value) /\ \A k \in 1..Len(value.list) : IsFinite(value.list[k])

EndsWith(text, suffix) ==
    Len(text) >= Len(suffix) /\ SubSeq(text, Len(text) - Len(suffix) + 1, Len(text)) = suffix

\* the key ends in '_keypoints_' + one digit + 'd'
HasKeypointsSuffix(key) ==
    \E digit \in {"0", "1", "2", "3", "4", "5", "6", "7", "8", "9"} :
        EndsWith(key, "_keypoints_" \o digit \o "d")

\* the key is one or more word characters followed by '_keypoints_2d'
IsWordKeypointsKey(key) ==
    /\ EndsWith(key, "_keypoints_2d")
    /\ Len(key) > Len("_keypoints_2d")
    /\ \A k \in 1..Len(key) : IsWordChar(CharAt(key, k))

\* whether a '\n' stands in text between the '[' that follows the key and
\* the first ']' after it (an array of numbers holds no ']' of its own)
NewlineBetween(text, open, close) ==
    \E k \in open..close : CharAt(text, k) = "\n"

NewlineInArray(text, key) ==
    NewlineBetween(text, Find(text, Quote(key) \o ": ["),
                   FirstClose(text, Find(text, Quote(key) \o ": [")))

\* the text of an item of the frame document in json.dumps(recordings, indent=2):
\* the document's items stand four levels deep
ItemText(item) == Quote(item[1]) \o ": " \o Dumps(item[2], 4)

\* C5: parsing the text that write_wrapper wrote as plain JSON gives back the
\* list of recordings that was serialized, with the same values, key order
\* and nesting.
C5_RoundTrip ==
    ser_pc = "loaded" => reloaded = JsonView(recordings)

C7_OtherArraysKeepTheirText ==
    ser_pc # "init" =>
        \A k \in 1..Len(DocumentItems) :
            (~HasKeypointsSuffix(DocumentItems[k][1]) /\ IsArray(DocumentItems[k][2]))
                => Find(slimindent_json, ItemText(DocumentItems[k])) # 0


====
